---------------------------- MODULE Spec2Model ----------------------------
(***************************************************************************)
(* CareCrew: the retrieval-and-verification core.                          *)
(*   - drug-safety dispatcher and batch verifier (data_analyze.py),        *)
(*   - the FDA tool service (mcp_server_fda.py, fda_server_logic.py),      *)
(*   - the guideline dispatcher kb_agent (agents/kb_agent.py),             *)
(*   - the process-wide index cache and retriever (data_analyze.py).       *)
(* Text is a sequence of one-character strings, so that str.strip() is     *)
(* computed and not assumed.                                               *)
(***************************************************************************)
EXTENDS Integers, Sequences, FiniteSets, TLC

VARIABLES
    \* ---- get_openfda_warnings_batch (client side) ----
    medicine_list,   \* the argument of get_openfda_warnings_batch
    bi,              \* position of the for loop in medicine_list (1-based)
    results,         \* the local list `results`
    trace,           \* per record: what the dispatcher did to produce it
    report,          \* the returned mapping, or NoValue while running
    bpc,             \* "loop" | "done" | "raised"
    \* ---- the two dispatcher paths run side by side on one drug name ----
    pname,           \* the drug name
    psource,         \* the behaviour of the public drug-label source
    recUp,           \* get_openfda_warnings with the tool service answering
    recDown,         \* get_openfda_warnings with the tool service down
    \* ---- check_multiple_drugs (tool service) ----
    drug_list,       \* the argument of check_multiple_drugs
    srvReport,       \* the returned FdaBatchOutput, or NoValue
    \* ---- the process that runs kb_agent and the index cache ----
    snapshot,        \* kb_index.pkl: "absent" | "ok" | "corrupt"
    pdf,             \* the guideline document exists
    passages,        \* the passages of the document, in chunk order
    qdist,           \* L2 distance of each passage to the query
    kb_index_data,   \* the module global: NoIndex or the identity of an index
    nextId,          \* identity of the next index object created
    lastEnsure,      \* the most recent ensure_kb_index call, or NoValue
    firstIndex,      \* the first index a call returned, NoIndex before
    laterCall,       \* an ensure_kb_index call was made after that one
    kbOut,           \* the most recent kb_agent or rag_lookup_kb call, or NoValue
    \* ---- threads of the tool service inside ensure_kb_index ----
    tpc,             \* per thread: the line of ensure_kb_index it is at
    tdata,           \* per thread: the local `data`
    tret,            \* per thread: the value returned, NotReturned before
    assigns,         \* how many times `kb_index_data = data` has run
    \* ---- chunk_text ----
    ctext,           \* the argument `text`
    chunk_size,      \* the argument `chunk_size`
    overlap,         \* the argument `overlap`
    ci,              \* the local `i`
    chunks,          \* the local `chunks`
    cpc,             \* "loop" | "done"
    \* ---- treatment_planner_agent, steps 3 and 4 ----
    drugs,           \* the names extracted from the plan
    fda_batch,       \* the batch report, NoValue before step 3
    safety_notes,    \* the notes of the FDA safety summary
    ppc,             \* "batch" | "notes" | "done"
    \* ---- step 3 of kb_agent on one text ----
    tpassage,        \* the loop variable `passage`
    cleaned,         \* what raw_passages.append receives, NoValue before
    \* ---- invoke_tool of the two tool services ----
    inv_server,      \* "fda" | "kb"
    inv_tool,        \* invocation.tool_name
    inv_args,        \* invocation.arguments
    inv_resp         \* the HTTP response, NoValue before

fdaVars   == <<medicine_list, bi, results, trace, report, bpc>>
pathVars  == <<pname, psource, recUp, recDown>>
srvVars   == <<drug_list, srvReport>>
kbEnv     == <<snapshot, pdf, passages, qdist>>
kbCache   == <<kb_index_data, nextId, lastEnsure, firstIndex, laterCall>>
kbVars    == <<kbEnv, kbCache, kbOut>>
concVars  == <<tpc, tdata, tret, assigns>>
chunkVars == <<ctext, chunk_size, overlap, ci, chunks, cpc>>
planVars  == <<drugs, fda_batch, safety_notes, ppc>>
truncVars == <<tpassage, cleaned>>
invVars   == <<inv_server, inv_tool, inv_args, inv_resp>>
moreVars  == <<truncVars, invVars>>
extVars   == <<concVars, chunkVars, planVars, moreVars>>

NoValue == [none |-> TRUE]
NoIndex == 0        \* kb_index_data = None

-----------------------------------------------------------------------------
(* Bounds *)
MaxList == 3        \* longest medicine_list / drug_list explored
MaxPassages == 2    \* most passages in the guideline document
MaxTopK == 2        \* largest top_k a caller passes
MaxObjects == 3     \* most index objects created in one process
MaxThreads == 2     \* threads inside ensure_kb_index at the same time
MaxTokens == 5      \* most tokens in the text given to chunk_text
MaxWindow == 3      \* largest chunk_size and overlap given to chunk_text

-----------------------------------------------------------------------------
(* Text *)
Whitespace == {" ", "\t"}

RECURSIVE LStrip(_)
LStrip(s) == IF s # <<>> /\ Head(s) \in Whitespace THEN LStrip(Tail(s)) ELSE s

RECURSIVE RStrip(_)
RStrip(s) ==
    IF s # <<>> /\ s[Len(s)] \in Whitespace
    THEN RStrip(SubSeq(s, 1, Len(s) - 1))
    ELSE s

\* str.strip()
Strip(s) == RStrip(LStrip(s))

\* The names the callers pass: empty, blank, clean, padded.
NameInputs ==
    { <<>>, <<" ">>, <<"a">>, <<" ", "b", "\t">> }

SeqsUpTo(S, n) == UNION { [1..k -> S] : k \in 0..n }

-----------------------------------------------------------------------------
(* HTTP responses as the requests library presents them *)
Raise(kind)        == [exc |-> kind]
Http(status, body) == [status |-> status, body |-> body]
IsRaise(resp)      == "exc" \in DOMAIN resp

NotJson     == [notjson |-> TRUE]          \* resp.json() raises
JsonList    == [jlist |-> TRUE]            \* top level is not an object
JsonObj(f)  == [obj |-> f]                 \* top level object, f its members
IsJsonObj(b) == "obj" \in DOMAIN b

JDict(f)  == [dict |-> f]                  \* a JSON object value
JNull     == [null |-> TRUE]               \* a JSON value that is no mapping
IsDict(v) == "dict" \in DOMAIN v

\* dict.get(key, default)
Get(f, key, default) == IF key \in DOMAIN f THEN f[key] ELSE default

EmptyMap == [k \in {} |-> NoValue]

-----------------------------------------------------------------------------
(* The public drug-label source *)
Keys == <<"brand_name", "generic_name">>

EntryFull ==
    [brand_name |-> <<"Bayer">>, generic_name |-> <<"aspirin">>,
     warnings |-> <<"Reye syndrome">>]
EntryBare       == EmptyMap                      \* no openfda, no warnings
EntryEmptyBrand == [brand_name |-> <<>>]         \* [...][0] raises IndexError

SourceResponses ==
    { Raise("timeout"), Raise("connection"),
      Http(500, NotJson), Http(200, NotJson),
      Http(200, JsonObj(EmptyMap)),
      Http(200, JsonObj([results |-> <<>>])),
      Http(200, JsonObj([results |-> <<EntryFull>>])),
      Http(200, JsonObj([results |-> <<EntryBare>>])),
      Http(200, JsonObj([results |-> <<EntryEmptyBrand>>])) }

\* One behaviour of the source: its answer to the brand and the generic query.
SourceBehaviours == [ {"brand_name", "generic_name"} -> SourceResponses ]

DrugRecord(n, b, g, w, f) ==
    [drug_name |-> n, brand |-> b, generic |-> g, warnings |-> w, found |-> f]

NotFoundRecord(n) == DrugRecord(n, "N/A", "N/A", "No data found.", FALSE)

\* What one iteration of `for key in [...]` does with the response:
\* "raise" leaves the try block, "next" goes on to the next key, "hit" returns.
LookupStep(drug_name, resp) ==
    IF IsRaise(resp) THEN [k |-> "raise"]
    ELSE IF resp.status # 200 THEN [k |-> "next"]
    ELSE IF ~IsJsonObj(resp.body) THEN [k |-> "raise"]
    ELSE LET data == Get(resp.body.obj, "results", <<>>) IN
         IF data = <<>> THEN [k |-> "next"]
         ELSE LET entry == data[1]
                  b == Get(entry, "brand_name", <<"N/A">>)
                  g == Get(entry, "generic_name", <<"N/A">>)
                  w == Get(entry, "warnings", <<"No warnings available.">>)
              IN IF b = <<>> \/ g = <<>> \/ w = <<>> THEN [k |-> "raise"]
                 ELSE [k |-> "hit",
                       rec |-> DrugRecord(drug_name, b[1], g[1], w[1], TRUE)]


-----------------------------------------------------------------------------
(* fda_server_logic.py and mcp_server_fda.py: the tool service *)

\* The for loop of _call_openfda_api over the remaining keys; `calls` are the
\* queries made so far.  Any exception is caught outside the loop, so it ends
\* the loop and the function returns the not-found record.
RECURSIVE ApiLoop(_, _, _, _)
ApiLoop(drug_name, src, keys, calls) ==
    IF keys = <<>>
    THEN [rec |-> NotFoundRecord(drug_name), calls |-> calls]
    ELSE LET key  == Head(keys)
             step == LookupStep(drug_name, src[key])
             made == Append(calls, key)
         IN CASE step.k = "hit"   -> [rec |-> step.rec, calls |-> made]
              [] step.k = "raise" -> [rec |-> NotFoundRecord(drug_name),
                                      calls |-> made]
              [] OTHER            -> ApiLoop(drug_name, src, Tail(keys), made)

_call_openfda_api(drug_name, src) == ApiLoop(drug_name, src, Keys, <<>>).rec

\* _call_openfda_api_batch; srcs[i] is the source's behaviour during the
\* i-th iteration.
RECURSIVE ApiBatchLoop(_, _, _, _)
ApiBatchLoop(list, srcs, i, acc) ==
    IF i > Len(list) THEN acc
    ELSE LET clean_name == Strip(list[i]) IN
         IF clean_name = <<>>
         THEN ApiBatchLoop(list, srcs, i + 1, acc)
         ELSE ApiBatchLoop(list, srcs, i + 1,
                           Append(acc, _call_openfda_api(clean_name, srcs[i])))

_call_openfda_api_batch(list, srcs) ==
    LET res == ApiBatchLoop(list, srcs, 1, <<>>) IN
    [status  |-> IF res # <<>> THEN "success" ELSE "no_data",
     count   |-> Len(res),
     results |-> res]

check_drug_safety(drug_name, src) ==
    IF drug_name = <<>> \/ Strip(drug_name) = <<>>
    THEN DrugRecord(<<"N", "/", "A">>, "N/A", "N/A",
                    "Invalid or empty drug name provided.", FALSE)
    ELSE LET result == _call_openfda_api(drug_name, src) IN
         DrugRecord(drug_name, result.brand, result.generic,
                    result.warnings, result.found)

check_multiple_drugs(list, srcs) ==
    IF list = <<>> \/ ~(\E k \in 1..Len(list) : Strip(list[k]) # <<>>)
    THEN [status |-> "error", count |-> 0, results |-> <<>>]
    ELSE LET batch_result == _call_openfda_api_batch(list, srcs) IN
         [status  |-> batch_result.status,
          count   |-> Len(batch_result.results),
          results |-> batch_result.results]

\* invoke_tool of the FDA service for the single-drug tool: the HTTP response
\* the client sees.  The HTTPException(400) of the else branch is raised
\* inside the try block and caught by `except Exception`, which answers 500.
invoke_tool_fda(tool_name, drug_name, src) ==
    IF tool_name = "check_drug_safety"
    THEN Http(200, JsonObj([success |-> TRUE,
                            result  |-> JDict(check_drug_safety(drug_name, src))]))
    ELSE Http(500, NotJson)

-----------------------------------------------------------------------------
(* data_analyze.py: the drug-safety dispatcher *)

\* What may come back from requests.post(FDA_MCP_URL, ...): the tool service
\* answering, or any failure of it.
PrimaryFailures ==
    { Raise("timeout"), Raise("connection"),
      Http(500, NotJson), Http(400, NotJson),
      Http(200, NotJson), Http(200, JsonList),
      Http(200, JsonObj([success |-> TRUE, result |-> JNull])) }

ServiceAnswers(drug_name) ==
    { invoke_tool_fda("check_drug_safety", drug_name, s) : s \in SourceBehaviours }

PrimaryResponses(drug_name) ==
    ServiceAnswers(drug_name) \cup PrimaryFailures
      \cup { Http(200, JsonObj([success |-> TRUE])) }

\* PrimaryStep without the isinstance(data, dict) test.
PrimaryStepNoTypeTest(drug_name, resp) ==
    IF IsRaise(resp) THEN [k |-> "raise"]
    ELSE IF resp.status = 200
    THEN IF ~IsJsonObj(resp.body) THEN [k |-> "raise"]
         ELSE LET data == Get(resp.body.obj, "result", JDict(EmptyMap))
                  d == IF IsDict(data) THEN data.dict ELSE EmptyMap IN
              [k |-> "return",
               rec |-> DrugRecord(drug_name,
                         Get(d, "brand", "N/A"), Get(d, "generic", "N/A"),
                         Get(d, "warnings", "No warnings available."), TRUE)]
    ELSE [k |-> "raise"]

\* Step 1 of get_openfda_warnings: "return" with a record, "raise" (caught by
\* the except clause) or "fall" (status 200, result not a dict: the try block
\* ends without returning).
PrimaryStep(drug_name, resp) ==
    IF IsRaise(resp) THEN [k |-> "raise"]
    ELSE IF resp.status = 200
    THEN IF ~IsJsonObj(resp.body) THEN [k |-> "raise"]
         ELSE LET data == Get(resp.body.obj, "result", JDict(EmptyMap)) IN
              IF IsDict(data)
              THEN [k |-> "return",
                    rec |-> DrugRecord(drug_name,
                              Get(data.dict, "brand", "N/A"),
                              Get(data.dict, "generic", "N/A"),
                              Get(data.dict, "warnings", "No warnings available."),
                              TRUE)]
              ELSE [k |-> "fall"]
    ELSE [k |-> "raise"]

\* FallbackLoop without the except clause around the loop.
RECURSIVE FallbackLoopNoExcept(_, _, _, _)
FallbackLoopNoExcept(drug_name, src, keys, calls) ==
    IF keys = <<>>
    THEN [exc |-> FALSE, rec |-> NotFoundRecord(drug_name), calls |-> calls]
    ELSE LET key  == Head(keys)
             step == LookupStep(drug_name, src[key])
             made == Append(calls, key)
         IN CASE step.k = "hit"   -> [exc |-> FALSE, rec |-> step.rec,
                                      calls |-> made]
              [] step.k = "raise" -> [exc |-> TRUE,
                                      rec |-> NotFoundRecord(drug_name),
                                      calls |-> made]
              [] OTHER            -> FallbackLoopNoExcept(drug_name, src,
                                                          Tail(keys), made)

\* Step 2 of get_openfda_warnings: the same loop as _call_openfda_api, inside
\* its own try block; exc is TRUE when an exception leaves the function.
RECURSIVE FallbackLoop(_, _, _, _)
FallbackLoop(drug_name, src, keys, calls) ==
    IF keys = <<>>
    THEN [exc |-> FALSE, rec |-> NotFoundRecord(drug_name), calls |-> calls]
    ELSE LET key  == Head(keys)
             step == LookupStep(drug_name, src[key])
             made == Append(calls, key)
         IN CASE step.k = "hit"   -> [exc |-> FALSE, rec |-> step.rec,
                                      calls |-> made]
              [] step.k = "raise" -> [exc |-> FALSE,
                                      rec |-> NotFoundRecord(drug_name),
                                      calls |-> made]
              [] OTHER            -> FallbackLoop(drug_name, src, Tail(keys), made)

\* get_openfda_warnings with its two steps in the other order: the public
\* lookup first, the tool service only when that found nothing.
get_openfda_warnings_public_first(drug_name, presp, src) ==
    LET f == FallbackLoop(drug_name, src, Keys, <<>>) IN
    IF f.rec.found
    THEN [exc |-> f.exc, rec |-> f.rec, primary |-> "raise", calls |-> f.calls,
          arg |-> drug_name, net |-> f.calls]
    ELSE LET p == PrimaryStep(drug_name, presp) IN
         [exc |-> f.exc, rec |-> IF p.k = "return" THEN p.rec ELSE f.rec,
          primary |-> p.k, calls |-> f.calls,
          arg |-> drug_name, net |-> f.calls \o <<"primary">>]

\* get_openfda_warnings: the record, whether an exception escaped, the outcome
\* of the primary call and the public lookup requests made, in order; `arg`
\* is the name it was called with and `net` every network call it made, in
\* the order made.
get_openfda_warnings(drug_name, presp, src) ==
    LET p == PrimaryStep(drug_name, presp) IN
    IF p.k = "return"
    THEN [exc |-> FALSE, rec |-> p.rec, primary |-> "return", calls |-> <<>>,
          arg |-> drug_name, net |-> <<"primary">>]
    ELSE LET f == FallbackLoop(drug_name, src, Keys, <<>>) IN
         [exc |-> f.exc, rec |-> f.rec, primary |-> p.k, calls |-> f.calls,
          arg |-> drug_name, net |-> <<"primary">> \o f.calls]


\* The source behaviours the batch runs draw from, one per kind of outcome of
\* the two queries.
BatchBehaviours ==
    { [brand_name |-> b, generic_name |-> g] :
        <<b, g>> \in
          { <<Http(200, JsonObj([results |-> <<EntryFull>>])), Raise("timeout")>>,
            <<Http(200, JsonObj([results |-> <<>>])),
              Http(200, JsonObj([results |-> <<EntryFull>>]))>>,
            <<Http(200, JsonObj([results |-> <<>>])),
              Http(200, JsonObj([results |-> <<>>]))>>,
            <<Raise("timeout"), Http(200, JsonObj([results |-> <<EntryFull>>]))>>,
            <<Http(500, NotJson), Raise("connection")>>,
            <<Http(200, NotJson), Http(500, NotJson)>> } }

BatchPrimaryResponses(drug_name) ==
    { invoke_tool_fda("check_drug_safety", drug_name, s) : s \in BatchBehaviours }
      \cup PrimaryFailures \cup { Http(200, JsonObj([success |-> TRUE])) }

\* A request failed: timeout, connection error, non-200 or malformed body.
RespFailed(resp) ==
    \/ IsRaise(resp)
    \/ ~IsRaise(resp) /\ (resp.status # 200 \/ ~IsJsonObj(resp.body))

\* The primary call failed: as above, or its result is not a mapping.  A body
\* with no result member counts as carrying the empty mapping.
PrimaryFailed(resp) ==
    \/ RespFailed(resp)
    \/ /\ ~RespFailed(resp)
       /\ "result" \in DOMAIN resp.body.obj
       /\ ~IsDict(resp.body.obj.result)

\* The mapping of a successful primary answer.
PrimaryMapping(resp) ==
    IF PrimaryFailed(resp) THEN NoValue
    ELSE IF "result" \in DOMAIN resp.body.obj THEN resp.body.obj.result.dict
    ELSE EmptyMap

\* What is remembered of one dispatcher call, next to its record.
TraceEntry(item, presp, src, r) ==
    [item          |-> item,
     primaryFailed |-> PrimaryFailed(presp),
     mapping       |-> PrimaryMapping(presp),
     calls         |-> [c \in 1..Len(r.calls) |->
                          [key |-> r.calls[c], failed |-> RespFailed(src[r.calls[c]]),
                           matched |-> LookupStep(r.arg, src[r.calls[c]]).k = "hit"]],
     arg           |-> r.arg,
     net           |-> r.net]

\* clean_name without the strip()
clean_name_raw(drug) == drug

\* line 157
clean_name(drug) == Strip(drug)

\* batch_status that never reports no_data
batch_status_always_success(res) == "success"

\* line 165
batch_status(res) == IF res # <<>> THEN "success" ELSE "no_data"

-----------------------------------------------------------------------------
(* get_openfda_warnings_batch, one loop iteration per step *)

InitBatch ==
    /\ medicine_list \in SeqsUpTo(NameInputs, MaxList)
    /\ bi = 1
    /\ results = <<>>
    /\ trace = <<>>
    /\ report = NoValue
    /\ bpc = "loop"

\* `if not clean_name: continue`
BatchSkip ==
    /\ bpc = "loop"
    /\ bi <= Len(medicine_list)
    /\ clean_name(medicine_list[bi]) = <<>>
    /\ bi' = bi + 1
    /\ UNCHANGED <<medicine_list, results, trace, report, bpc>>
    /\ UNCHANGED <<pathVars, srvVars, kbVars, extVars>>

\* `result = get_openfda_warnings(clean_name); results.append(result)`
BatchLookup ==
    /\ bpc = "loop"
    /\ bi <= Len(medicine_list)
    /\ clean_name(medicine_list[bi]) # <<>>
    /\ \E src \in BatchBehaviours :
       \E presp \in BatchPrimaryResponses(clean_name(medicine_list[bi])) :
          LET r == get_openfda_warnings(clean_name(medicine_list[bi]), presp, src) IN
          IF r.exc
          THEN /\ bpc' = "raised"
               /\ UNCHANGED <<bi, results, trace>>
          ELSE /\ results' = Append(results, r.rec)
               /\ trace' = Append(trace, TraceEntry(bi, presp, src, r))
               /\ bi' = bi + 1
               /\ bpc' = bpc
    /\ UNCHANGED <<medicine_list, report>>
    /\ UNCHANGED <<pathVars, srvVars, kbVars, extVars>>

\* the return statement
BatchReturn ==
    /\ bpc = "loop"
    /\ bi > Len(medicine_list)
    /\ report' = [status  |-> batch_status(results),
                  count   |-> Len(results),
                  results |-> results]
    /\ bpc' = "done"
    /\ UNCHANGED <<medicine_list, bi, results, trace>>
    /\ UNCHANGED <<pathVars, srvVars, kbVars, extVars>>

-----------------------------------------------------------------------------
(* The two dispatcher paths on one name against one fixed source *)

PathNames == { Strip(n) : n \in NameInputs } \ { <<>> }

InitPaths ==
    /\ pname \in PathNames
    /\ psource \in SourceBehaviours
    /\ recUp = NoValue
    /\ recDown = NoValue

\* The tool service is up and consults the source itself.
CallServiceUp ==
    /\ recUp = NoValue
    /\ recUp' = get_openfda_warnings(pname,
                    invoke_tool_fda("check_drug_safety", pname, psource),
                    psource).rec
    /\ UNCHANGED <<pname, psource, recDown>>
    /\ UNCHANGED <<fdaVars, srvVars, kbVars, extVars>>

\* The tool service fails in any of the ways the dispatcher recovers from.
CallServiceDown ==
    /\ recDown = NoValue
    /\ \E f \in PrimaryFailures :
          recDown' = get_openfda_warnings(pname, f, psource).rec
    /\ UNCHANGED <<pname, psource, recUp>>
    /\ UNCHANGED <<fdaVars, srvVars, kbVars, extVars>>

-----------------------------------------------------------------------------
(* check_multiple_drugs on the tool service *)

InitSrv ==
    /\ drug_list \in SeqsUpTo(NameInputs, MaxList)
    /\ srvReport = NoValue

SrvCheckMultiple ==
    /\ srvReport = NoValue
    /\ \E srcs \in [1..Len(drug_list) -> BatchBehaviours] :
          srvReport' = check_multiple_drugs(drug_list, srcs)
    /\ UNCHANGED drug_list
    /\ UNCHANGED <<fdaVars, pathVars, kbVars, extVars>>

-----------------------------------------------------------------------------
(* data_analyze.py: the index cache and the retriever *)

Some(x)   == [some |-> x]
None      == NoValue
IsSome(v) == "some" \in DOMAIN v

\* The i-th chunk of the document (0-based), as chunk_text joins it: tokens
\* separated by single spaces, no space at either end.
PassageText(i) == <<"p", " ", ToString(i)>>

\* build_kb_index opening the snapshot file for writing before it embeds: a
\* failed embedding leaves a file that cannot be loaded.
build_kb_index_opens_file_first(pdfPresent, embedOk, fresh) ==
    IF ~pdfPresent THEN [exc |-> TRUE, data |-> NoIndex, written |-> FALSE]
    ELSE IF ~embedOk THEN [exc |-> TRUE, data |-> NoIndex, written |-> TRUE]
    ELSE [exc |-> FALSE, data |-> fresh, written |-> TRUE]

\* build_kb_index: the document is read, chunked and embedded; the snapshot is
\* written only after every step before it succeeded (`written`: a file was
\* left on disk).
build_kb_index(pdfPresent, embedOk, fresh) ==
    IF ~pdfPresent THEN [exc |-> TRUE, data |-> NoIndex, written |-> FALSE]
    ELSE IF ~embedOk THEN [exc |-> TRUE, data |-> NoIndex, written |-> FALSE]
    ELSE [exc |-> FALSE, data |-> fresh, written |-> TRUE]

\* load_kb_index: None when the file is absent, else the unpickled object.
load_kb_index(snap, fresh) ==
    IF snap = "absent" THEN [exc |-> FALSE, data |-> NoIndex, io |-> {"snapshot_exists"}]
    ELSE IF snap = "corrupt"
    THEN [exc |-> TRUE, data |-> NoIndex, io |-> {"snapshot_exists", "load"}]
    ELSE [exc |-> FALSE, data |-> fresh, io |-> {"snapshot_exists", "load"}]

\* The body of `if kb_index_data is None:` without the test that the document
\* exists: the build is always attempted.
EnsureMissNoDocumentTest(cache, snap, pdfPresent, embedOk, fresh) ==
    LET l == load_kb_index(snap, fresh) IN
    IF l.exc
    THEN [exc |-> TRUE, ret |-> NoIndex, cache |-> cache, snapshot |-> snap,
          io |-> l.io, created |-> FALSE]
    ELSE IF l.data # NoIndex
    THEN [exc |-> FALSE, ret |-> l.data, cache |-> l.data, snapshot |-> snap,
          io |-> l.io, created |-> TRUE]
    ELSE LET b == build_kb_index(pdfPresent, embedOk, fresh)
             io == l.io \cup {"build"} IN
         IF b.exc
         THEN [exc |-> TRUE, ret |-> NoIndex, cache |-> cache,
               snapshot |-> IF b.written THEN "corrupt" ELSE snap,
               io |-> io, created |-> FALSE]
         ELSE [exc |-> FALSE, ret |-> b.data, cache |-> b.data,
               snapshot |-> "ok", io |-> io, created |-> TRUE]

\* The else branch remembering its outcome in the global: a marker that is
\* not None, so later calls take it for an index.
EnsureUnavailableCached(cache, snap, io) ==
    [exc |-> FALSE, ret |-> NoIndex, cache |-> -1, snapshot |-> snap,
     io |-> io, created |-> FALSE]

\* The else branch of ensure_kb_index: neither file exists, None is returned
\* and the global is left as it was.
EnsureUnavailable(cache, snap, io) ==
    [exc |-> FALSE, ret |-> NoIndex, cache |-> cache, snapshot |-> snap,
     io |-> io, created |-> FALSE]

\* The body of `if kb_index_data is None:` in ensure_kb_index.
EnsureMiss(cache, snap, pdfPresent, embedOk, fresh) ==
    LET l == load_kb_index(snap, fresh) IN
    IF l.exc
    THEN [exc |-> TRUE, ret |-> NoIndex, cache |-> cache, snapshot |-> snap,
          io |-> l.io, created |-> FALSE]
    ELSE IF l.data # NoIndex
    THEN [exc |-> FALSE, ret |-> l.data, cache |-> l.data, snapshot |-> snap,
          io |-> l.io, created |-> TRUE]
    ELSE IF pdfPresent
    THEN LET b == build_kb_index(pdfPresent, embedOk, fresh)
             io == l.io \cup {"document_exists", "build"} IN
         IF b.exc
         THEN [exc |-> TRUE, ret |-> NoIndex, cache |-> cache,
               snapshot |-> IF b.written THEN "corrupt" ELSE snap,
               io |-> io, created |-> FALSE]
         ELSE [exc |-> FALSE, ret |-> b.data, cache |-> b.data,
               snapshot |-> "ok", io |-> io, created |-> TRUE]
    ELSE EnsureUnavailable(cache, snap, l.io \cup {"document_exists"})

\* ensure_kb_index without the `if kb_index_data is None` test.
ensure_kb_index_no_cache_test(cache, snap, pdfPresent, embedOk, fresh) ==
    EnsureMiss(cache, snap, pdfPresent, embedOk, fresh)

\* ensure_kb_index: the value returned, whether it raised, the new value of
\* the global, the state of the snapshot file and the storage touched.
ensure_kb_index(cache, snap, pdfPresent, embedOk, fresh) ==
    IF cache # NoIndex
    THEN [exc |-> FALSE, ret |-> cache, cache |-> cache, snapshot |-> snap,
          io |-> {}, created |-> FALSE]
    ELSE EnsureMiss(cache, snap, pdfPresent, embedOk, fresh)

\* IndexFlatL2.search: the ids (0-based) of the min(k, n) nearest passages in
\* non-decreasing distance; equal distances may come in either order.
RankOrders(dist, k) ==
    LET n == Len(dist)
        m == IF k < n THEN k ELSE n
    IN { o \in [1..m -> 0..(n - 1)] :
           /\ \A a, b \in 1..m : a < b => o[a] # o[b] /\ dist[o[a] + 1] <= dist[o[b] + 1]
           /\ \A a \in 1..m : \A x \in 0..(n - 1) :
                 (\A b \in 1..m : o[b] # x) => dist[o[a] + 1] <= dist[x + 1] }

\* The distances a passage may have to the query: nearer, farther; two
\* passages may be equally far.
Dists == {0, 1}

InfDist == 1000000     \* the distance faiss reports next to a placeholder id

\* The arrays D[0] and I[0]: placeholders (-1) fill the places beyond n.
faiss_search(dist, k, order) ==
    [I |-> [j \in 1..k |-> IF j <= Len(order) THEN order[j] ELSE -1],
     D |-> [j \in 1..k |-> IF j <= Len(order) THEN dist[order[j] + 1] ELSE InfDist]]

\* The place of the id itself, wrapped to the length of the list, instead of
\* the place where the id stands: D[0][idx % len(I[0])], 1-based.
ListIndexById(I, idx) == (idx % Len(I)) + 1

\* list(I[0]).index(idx), 1-based
ListIndex(I, idx) == CHOOSE j \in 1..Len(I) : I[j] = idx /\ \A h \in 1..(j - 1) : I[h] # idx

\* The loop of rag_lookup_kb without the `idx >= 0` test: a negative idx
\* indexes the passages from the end, as Python lists do.
RECURSIVE RagCollectNoSignTest(_, _, _, _)
RagCollectNoSignTest(psgs, found, j, acc) ==
    IF j > Len(found.I) THEN acc
    ELSE LET idx == found.I[j] IN
         IF idx < Len(psgs)
         THEN RagCollectNoSignTest(psgs, found, j + 1,
                 Append(acc, [passage |-> psgs[IF idx >= 0 THEN idx + 1
                                               ELSE Len(psgs) + idx + 1],
                              score |-> found.D[ListIndex(found.I, idx)]]))
         ELSE RagCollectNoSignTest(psgs, found, j + 1, acc)

\* the loop of rag_lookup_kb over I[0]
RECURSIVE RagCollect(_, _, _, _)
RagCollect(psgs, found, j, acc) ==
    IF j > Len(found.I) THEN acc
    ELSE LET idx == found.I[j] IN
         IF idx >= 0 /\ idx < Len(psgs)
         THEN RagCollect(psgs, found, j + 1,
                 Append(acc, [passage |-> psgs[idx + 1],
                              score |-> found.D[ListIndex(found.I, idx)]]))
         ELSE RagCollect(psgs, found, j + 1, acc)

\* rag_lookup_kb after its ensure_kb_index call `ens`.
rag_lookup_kb(ens, psgs, dist, top_k, order) ==
    IF ens.exc THEN [exc |-> TRUE, hits |-> <<>>]
    ELSE IF ens.ret = NoIndex THEN [exc |-> FALSE, hits |-> <<>>]
    ELSE [exc |-> FALSE,
          hits |-> RagCollect(psgs, faiss_search(dist, top_k, order), 1, <<>>)]

-----------------------------------------------------------------------------
(* mcp_server_kb.py: the guideline tool service (a process of its own) *)

DefaultTopK == 4

ErrorSnippet == <<"E", "r", "r", "o", "r">>

search_medical_guidelines(rag) ==
    IF rag.exc
    THEN [guideline_snippets |-> <<ErrorSnippet>>, query_used |-> "q"]
    ELSE [guideline_snippets |-> [j \in 1..Len(rag.hits) |-> rag.hits[j].passage],
          query_used |-> "q"]

invoke_tool_kb(tool_name, rag) ==
    IF tool_name = "search_medical_guidelines"
    THEN Http(200, JsonObj([success |-> TRUE,
                            result  |-> JDict(search_medical_guidelines(rag))]))
    ELSE Http(500, NotJson)

\* What rag_lookup_kb does inside the service: it raises, has no index, or
\* searches its index of the same document with the default top_k.
ServiceRagOutcomes ==
    { [exc |-> TRUE, hits |-> <<>>], [exc |-> FALSE, hits |-> <<>>] }
      \cup { rag_lookup_kb([exc |-> FALSE, ret |-> 1], passages, qdist, DefaultTopK, o) :
               o \in RankOrders(qdist, DefaultTopK) }

KbPrimaryFailures ==
    { Raise("timeout"), Raise("connection"),
      Http(500, NotJson), Http(200, NotJson), Http(200, JsonList),
      Http(200, JsonObj([success |-> TRUE])),
      Http(200, JsonObj([success |-> TRUE, result |-> JNull])),
      Http(200, JsonObj([success |-> TRUE,
                         result |-> JDict([query_used |-> "q"])])) }

KbPrimaryResponses ==
    { invoke_tool_kb("search_medical_guidelines", r) : r \in ServiceRagOutcomes }
      \cup KbPrimaryFailures

-----------------------------------------------------------------------------
(* agents/kb_agent.py *)

\* _fetch_kb_via_mcp without its try/except.
_fetch_kb_via_mcp_no_except(resp) ==
    IF IsRaise(resp) THEN [exc |-> TRUE, val |-> None]
    ELSE IF resp.status = 200
    THEN IF ~IsJsonObj(resp.body) THEN [exc |-> TRUE, val |-> None]
         ELSE LET data == Get(resp.body.obj, "result", JDict(EmptyMap)) IN
              IF IsDict(data) /\ "guideline_snippets" \in DOMAIN data.dict
              THEN [exc |-> FALSE, val |-> Some(data.dict.guideline_snippets)]
              ELSE [exc |-> FALSE, val |-> None]
    ELSE [exc |-> FALSE, val |-> None]

\* _fetch_kb_via_mcp: the snippet list, or None; every exception is caught.
_fetch_kb_via_mcp(resp) ==
    IF IsRaise(resp) THEN [exc |-> FALSE, val |-> None]
    ELSE IF resp.status = 200
    THEN IF ~IsJsonObj(resp.body) THEN [exc |-> FALSE, val |-> None]
         ELSE LET data == Get(resp.body.obj, "result", JDict(EmptyMap)) IN
              IF IsDict(data) /\ "guideline_snippets" \in DOMAIN data.dict
              THEN [exc |-> FALSE, val |-> Some(data.dict.guideline_snippets)]
              ELSE [exc |-> FALSE, val |-> None]
    ELSE [exc |-> FALSE, val |-> None]

\* `if not hits`: None or the empty list
NotHits(v) == IF IsSome(v) THEN v.some = <<>> ELSE TRUE

\* LocalPassages building the list back to front.
RECURSIVE LocalPassagesReversed(_)
LocalPassagesReversed(local_hits) ==
    IF local_hits = <<>> THEN <<>>
    ELSE LET h == Head(local_hits)
             p == Get(h, "passage", <<>>) IN
         IF p # <<>> THEN LocalPassagesReversed(Tail(local_hits)) \o <<Strip(p)>>
         ELSE LocalPassagesReversed(Tail(local_hits))

\* [h.get("passage", "").strip() for h in local_hits if h.get("passage")]
RECURSIVE LocalPassages(_)
LocalPassages(local_hits) ==
    IF local_hits = <<>> THEN <<>>
    ELSE LET h == Head(local_hits)
             p == Get(h, "passage", <<>>) IN
         IF p # <<>> THEN <<Strip(p)>> \o LocalPassages(Tail(local_hits))
         ELSE LocalPassages(Tail(local_hits))

TruncLimit == 1000
TruncCut   == 950

\* s.rsplit(" ", 1)[0]
RSplitHead(s) ==
    LET sp == { j \in 1..Len(s) : s[j] = " " } IN
    IF sp = {} THEN s
    ELSE SubSeq(s, 1, (CHOOSE j \in sp : \A h \in sp : h <= j) - 1)

\* the body of the loop of step 3
CleanPassage(passage) ==
    IF Len(passage) > TruncLimit
    THEN Strip(RSplitHead(SubSeq(passage, 1, TruncCut)) \o <<".", ".", ".">>)
    ELSE Strip(passage)

\* Steps 3 and 4 of kb_agent on the list `hits`.
KbFormat(hits, llmOk) ==
    [raw_passages |-> [j \in 1..Len(hits) |-> CleanPassage(hits[j])],
     ret |-> IF llmOk THEN "summary" ELSE "format_error"]

-----------------------------------------------------------------------------
(* The process that runs kb_agent *)

InitKb ==
    /\ snapshot \in {"absent", "ok", "corrupt"}
    /\ pdf \in BOOLEAN
    /\ \E n \in 1..MaxPassages :
          /\ passages = [j \in 1..n |-> PassageText(j - 1)]
          /\ qdist \in [1..n -> Dists]
    /\ kb_index_data = NoIndex
    /\ nextId = 1
    /\ lastEnsure = NoValue
    /\ firstIndex = NoIndex
    /\ laterCall = FALSE
    /\ kbOut = NoValue

\* the call on record returned None (the index is unavailable)
ReturnedNone(call) ==
    IF call = NoValue THEN FALSE ELSE ~call.exc /\ call.ret = NoIndex

\* The effect of one ensure_kb_index call on the process and on storage.
ApplyEnsure(ens) ==
    /\ kb_index_data' = ens.cache
    /\ nextId' = IF ens.created THEN nextId + 1 ELSE nextId
    /\ snapshot' = ens.snapshot
    /\ lastEnsure' = [ret |-> ens.ret, exc |-> ens.exc, io |-> ens.io]
    /\ firstIndex' = IF firstIndex = NoIndex /\ ~ens.exc THEN ens.ret ELSE firstIndex
    /\ laterCall' = (laterCall \/ firstIndex # NoIndex)

\* a direct call of ensure_kb_index
EnsureKbIndex ==
    /\ nextId <= MaxObjects
    /\ \E embedOk \in BOOLEAN :
          ApplyEnsure(ensure_kb_index(kb_index_data, snapshot, pdf, embedOk, nextId))
    /\ UNCHANGED <<pdf, passages, qdist, kbOut>>
    /\ UNCHANGED <<fdaVars, pathVars, srvVars, extVars>>

\* a direct call of rag_lookup_kb(query, top_k), as the tool service makes it;
\* its record also tells whether the ensure_kb_index call before it returned
\* None
RagLookupKb ==
    /\ nextId <= MaxObjects
    /\ \E top_k \in 1..MaxTopK, embedOk \in BOOLEAN :
       \E order \in RankOrders(qdist, top_k) :
          LET ens == ensure_kb_index(kb_index_data, snapshot, pdf, embedOk, nextId)
              r == rag_lookup_kb(ens, passages, qdist, top_k, order)
          IN /\ ApplyEnsure(ens)
             /\ kbOut' = [op |-> "rag_lookup_kb", top_k |-> top_k,
                          index |-> ens.ret,
                          found |-> IF ens.ret = NoIndex THEN NoValue
                                    ELSE faiss_search(qdist, top_k, order),
                          exc |-> r.exc, hits |-> r.hits,
                          after_none |-> ReturnedNone(lastEnsure)]
    /\ UNCHANGED <<pdf, passages, qdist>>
    /\ UNCHANGED <<fdaVars, pathVars, srvVars, extVars>>

\* The primary answered 200 with a mapping that holds guideline_snippets:
\* that list, else None.
WellFormedSnippets(resp) ==
    IF /\ ~RespFailed(resp)
       /\ "result" \in DOMAIN resp.body.obj
       /\ IsDict(resp.body.obj.result)
       /\ "guideline_snippets" \in DOMAIN resp.body.obj.result.dict
    THEN Some(resp.body.obj.result.dict.guideline_snippets)
    ELSE None

\* The answers of the primary call by what they carry and what
\* _fetch_kb_via_mcp makes of them.
KbFetchOutcomes ==
    { [snippets |-> WellFormedSnippets(p), f |-> _fetch_kb_via_mcp(p)] :
        p \in KbPrimaryResponses }

\* kb_agent(query_text, top_k)
KbAgent ==
    /\ nextId <= MaxObjects
    /\ \E o \in KbFetchOutcomes, top_k \in 1..MaxTopK :
          LET f == o.f
              base == [op |-> "kb_agent", top_k |-> top_k, primary |-> o.snippets,
                       localCalled |-> FALSE, local_hits |-> None,
                       hits |-> None, raw_passages |-> <<>>,
                       ret |-> "exception", excFrom |-> "none"]
          IN
          \/ /\ f.exc
             /\ kbOut' = [base EXCEPT !.excFrom = "primary"]
             /\ UNCHANGED <<kbEnv, kbCache>>
          \/ /\ ~f.exc /\ ~NotHits(f.val)
             /\ \E llmOk \in BOOLEAN :
                   LET out == KbFormat(f.val.some, llmOk) IN
                   kbOut' = [base EXCEPT !.hits = f.val,
                                         !.raw_passages = out.raw_passages,
                                         !.ret = out.ret]
             /\ UNCHANGED <<kbEnv, kbCache>>
          \/ /\ ~f.exc /\ NotHits(f.val)
             /\ \E embedOk \in BOOLEAN, order \in RankOrders(qdist, top_k) :
                LET ens == ensure_kb_index(kb_index_data, snapshot, pdf,
                                           embedOk, nextId)
                    local == rag_lookup_kb(ens, passages, qdist, top_k, order)
                IN
                /\ ApplyEnsure(ens)
                /\ UNCHANGED <<pdf, passages, qdist>>
                /\ IF local.exc
                   THEN kbOut' = [base EXCEPT !.localCalled = TRUE,
                                              !.excFrom = "local"]
                   ELSE IF local.hits = <<>>
                   THEN kbOut' = [base EXCEPT !.localCalled = TRUE,
                                              !.local_hits = Some(local.hits),
                                              !.ret = "no_passages"]
                   ELSE \E llmOk \in BOOLEAN :
                        LET hits == LocalPassages(local.hits)
                            out == KbFormat(hits, llmOk) IN
                        kbOut' = [base EXCEPT !.localCalled = TRUE,
                                              !.local_hits = Some(local.hits),
                                              !.hits = Some(hits),
                                              !.raw_passages = out.raw_passages,
                                              !.ret = out.ret]
    /\ UNCHANGED <<fdaVars, pathVars, srvVars, extVars>>

\* The files change outside the process: the snapshot is removed, replaced or
\* damaged, the document is added or removed.
EnvSnapshot ==
    /\ \E v \in {"absent", "ok", "corrupt"} : v # snapshot /\ snapshot' = v
    /\ UNCHANGED <<pdf, passages, qdist, kbCache, kbOut>>
    /\ UNCHANGED <<fdaVars, pathVars, srvVars, extVars>>

EnvDocument ==
    /\ pdf' = ~pdf
    /\ UNCHANGED <<snapshot, passages, qdist, kbCache, kbOut>>
    /\ UNCHANGED <<fdaVars, pathVars, srvVars, extVars>>

-----------------------------------------------------------------------------
(* ensure_kb_index run by several threads of one process.  invoke_tool of the *)
(* guideline service is a plain `def` endpoint, so each request runs on a    *)
(* worker thread; the function takes no lock, and a thread may be preempted  *)
(* between any two of its lines.                                             *)

Threads == 1..MaxThreads

NotReturned == -1

\* Every thread is about to call ensure_kb_index; the cache is empty.
InitConc ==
    /\ snapshot \in {"absent", "ok", "corrupt"}
    /\ pdf \in BOOLEAN
    /\ passages = <<>> /\ qdist = <<>>
    /\ kb_index_data = NoIndex
    /\ nextId = 1
    /\ lastEnsure = NoValue /\ firstIndex = NoIndex /\ laterCall = FALSE
    /\ kbOut = NoValue
    /\ tpc = [t \in Threads |-> "test"]
    /\ tdata = [t \in Threads |-> NoIndex]
    /\ tret = [t \in Threads |-> NotReturned]
    /\ assigns = 0

\* `if kb_index_data is None:`
ThreadTest(t) ==
    /\ tpc[t] = "test"
    /\ tpc' = [tpc EXCEPT ![t] = IF kb_index_data = NoIndex THEN "load" ELSE "return"]
    /\ UNCHANGED <<tdata, tret, assigns, kbVars>>
    /\ UNCHANGED <<fdaVars, pathVars, srvVars, chunkVars, planVars, moreVars>>

\* `data = load_kb_index(KB_INDEX_PICKLE)` and `if data is None:`
ThreadLoad(t) ==
    /\ tpc[t] = "load"
    /\ LET l == load_kb_index(snapshot, nextId) IN
       IF l.exc
       THEN /\ tpc' = [tpc EXCEPT ![t] = "raised"]
            /\ UNCHANGED <<tdata, nextId>>
       ELSE IF l.data = NoIndex
       THEN /\ tpc' = [tpc EXCEPT ![t] = "document"]
            /\ UNCHANGED <<tdata, nextId>>
       ELSE /\ tpc' = [tpc EXCEPT ![t] = "assign"]
            /\ tdata' = [tdata EXCEPT ![t] = l.data]
            /\ nextId' = nextId + 1
    /\ UNCHANGED <<tret, assigns, kbEnv, kb_index_data, lastEnsure, firstIndex,
                   laterCall, kbOut>>
    /\ UNCHANGED <<fdaVars, pathVars, srvVars, chunkVars, planVars, moreVars>>

\* `if os.path.exists(STG_PDF):` ... `else: return None`
ThreadDocument(t) ==
    /\ tpc[t] = "document"
    /\ IF pdf
       THEN /\ tpc' = [tpc EXCEPT ![t] = "build"]
            /\ UNCHANGED tret
       ELSE /\ tpc' = [tpc EXCEPT ![t] = "done"]
            /\ tret' = [tret EXCEPT ![t] = NoIndex]
    /\ UNCHANGED <<tdata, assigns, kbVars>>
    /\ UNCHANGED <<fdaVars, pathVars, srvVars, chunkVars, planVars, moreVars>>

\* `data = build_kb_index(STG_PDF, KB_INDEX_PICKLE)`
ThreadBuild(t) ==
    /\ tpc[t] = "build"
    /\ \E embedOk \in BOOLEAN :
          LET b == build_kb_index(pdf, embedOk, nextId) IN
          IF b.exc
          THEN /\ tpc' = [tpc EXCEPT ![t] = "raised"]
               /\ snapshot' = IF b.written THEN "corrupt" ELSE snapshot
               /\ UNCHANGED <<tdata, nextId>>
          ELSE /\ tpc' = [tpc EXCEPT ![t] = "assign"]
               /\ tdata' = [tdata EXCEPT ![t] = b.data]
               /\ nextId' = nextId + 1
               /\ snapshot' = "ok"
    /\ UNCHANGED <<tret, assigns, pdf, passages, qdist, kb_index_data, lastEnsure,
                   firstIndex, laterCall, kbOut>>
    /\ UNCHANGED <<fdaVars, pathVars, srvVars, chunkVars, planVars, moreVars>>

\* `kb_index_data = data`
ThreadAssign(t) ==
    /\ tpc[t] = "assign"
    /\ kb_index_data' = tdata[t]
    /\ assigns' = assigns + 1
    /\ tpc' = [tpc EXCEPT ![t] = "return"]
    /\ UNCHANGED <<tdata, tret, kbEnv, nextId, lastEnsure, firstIndex, laterCall,
                   kbOut>>
    /\ UNCHANGED <<fdaVars, pathVars, srvVars, chunkVars, planVars, moreVars>>

\* `return kb_index_data`
ThreadReturn(t) ==
    /\ tpc[t] = "return"
    /\ tret' = [tret EXCEPT ![t] = kb_index_data]
    /\ tpc' = [tpc EXCEPT ![t] = "done"]
    /\ UNCHANGED <<tdata, assigns, kbVars>>
    /\ UNCHANGED <<fdaVars, pathVars, srvVars, chunkVars, planVars, moreVars>>

TestStep     == \E t \in Threads : ThreadTest(t)
LoadStep     == \E t \in Threads : ThreadLoad(t)
DocumentStep == \E t \in Threads : ThreadDocument(t)
BuildStep    == \E t \in Threads : ThreadBuild(t)
AssignStep   == \E t \in Threads : ThreadAssign(t)
ReturnStep   == \E t \in Threads : ThreadReturn(t)

-----------------------------------------------------------------------------
(* data_analyze.py: chunk_text *)

\* text.split(): the maximal runs of non-whitespace characters, in order.
RECURSIVE SplitFrom(_, _, _)
SplitFrom(text, cur, acc) ==
    IF text = <<>> THEN (IF cur = <<>> THEN acc ELSE Append(acc, cur))
    ELSE IF Head(text) \in Whitespace
    THEN SplitFrom(Tail(text), <<>>, IF cur = <<>> THEN acc ELSE Append(acc, cur))
    ELSE SplitFrom(Tail(text), Append(cur, Head(text)), acc)

Split(text) == SplitFrom(text, <<>>, <<>>)

\* " ".join(chunk)
RECURSIVE Join(_)
Join(chunk) ==
    IF chunk = <<>> THEN <<>>
    ELSE IF Len(chunk) = 1 THEN chunk[1]
    ELSE chunk[1] \o <<" ">> \o Join(Tail(chunk))

\* s[a:b] of a Python list, a and b 0-based and of either sign.
PyBound(x, n) == IF x < 0 THEN (IF x + n < 0 THEN 0 ELSE x + n)
                 ELSE (IF x > n THEN n ELSE x)

PySlice(s, a, b) == SubSeq(s, PyBound(a, Len(s)) + 1, PyBound(b, Len(s)))

\* `i += chunk_size` : the window advances by its whole size.
ChunkAdvanceNoOverlap(i, size, over) == i + size

\* `i += chunk_size - overlap`
ChunkAdvance(i, size, over) == i + (size - over)

\* the local `tokens`
tokens == Split(ctext)

\* the k-th token of a text (1-based): a word of one or two characters
Token(k) == IF k % 2 = 0 THEN <<"t", ToString(k)>> ELSE <<ToString(k)>>

\* A loop that never ends is followed for this many iterations; a run with
\* overlap < chunk_size makes at most one iteration per token.
MaxChunks == MaxTokens + 2

\* The texts: n words separated by single blanks, or the same words with
\* blanks and tabs around and between them.
ChunkTexts ==
    { Join([k \in 1..n |-> Token(k)]) : n \in 0..MaxTokens }
      \cup { <<" ">> \o Join([k \in 1..n |-> Token(k) \o <<"\t">>]) : n \in 0..MaxTokens }

InitChunk ==
    /\ ctext \in ChunkTexts
    /\ chunk_size \in 1..MaxWindow
    /\ overlap \in 0..MaxWindow
    /\ ci = 0
    /\ chunks = <<>>
    /\ cpc = "loop"

\* one iteration of `while i < len(tokens):`
ChunkLoop ==
    /\ cpc = "loop"
    /\ ci < Len(tokens)
    /\ Len(chunks) < MaxChunks
    /\ chunks' = Append(chunks, Join(PySlice(tokens, ci, ci + chunk_size)))
    /\ ci' = ChunkAdvance(ci, chunk_size, overlap)
    /\ UNCHANGED <<ctext, chunk_size, overlap, cpc>>
    /\ UNCHANGED <<fdaVars, pathVars, srvVars, kbVars, concVars, planVars,
                   moreVars>>

\* the loop test fails: `return chunks`
ChunkReturn ==
    /\ cpc = "loop"
    /\ ~(ci < Len(tokens))
    /\ cpc' = "done"
    /\ UNCHANGED <<ctext, chunk_size, overlap, ci, chunks>>
    /\ UNCHANGED <<fdaVars, pathVars, srvVars, kbVars, concVars, planVars,
                   moreVars>>

-----------------------------------------------------------------------------
(* agents/treatment_planner_agent.py, steps 3 and 4: the batch check of the  *)
(* extracted names and the FDA safety summary                                 *)

\* A label text of more than a thousand characters.
RECURSIVE Repeat(_, _)
Repeat(s, k) == IF k = 0 THEN "" ELSE s \o Repeat(s, k - 1)

LongWarning == Repeat("liver risk ", 100)

EntryLong ==
    [brand_name |-> <<"Tylenol">>, generic_name |-> <<"acetaminophen">>,
     warnings |-> <<LongWarning>>]

\* The public source answers the brand query with a long label, with a short
\* label, or knows nothing under either key.
PlanSources ==
    { [brand_name |-> Http(200, JsonObj([results |-> <<EntryLong>>])),
       generic_name |-> Raise("timeout")],
      [brand_name |-> Http(200, JsonObj([results |-> <<EntryFull>>])),
       generic_name |-> Raise("timeout")],
      [brand_name |-> Http(200, JsonObj([results |-> <<>>])),
       generic_name |-> Http(200, JsonObj([results |-> <<>>]))] }

\* What the names meet: the source, and the tool service up or down.
PlanBehaviours == [src : PlanSources, up : BOOLEAN]

\* the for loop of get_openfda_warnings_batch from item i on
RECURSIVE BatchLoop(_, _, _, _)
BatchLoop(list, beh, i, acc) ==
    IF i > Len(list) THEN [exc |-> FALSE, results |-> acc]
    ELSE LET name == clean_name(list[i]) IN
         IF name = <<>> THEN BatchLoop(list, beh, i + 1, acc)
         ELSE LET presp == IF beh[i].up
                           THEN invoke_tool_fda("check_drug_safety", name, beh[i].src)
                           ELSE Raise("connection")
                  r == get_openfda_warnings(name, presp, beh[i].src)
              IN IF r.exc THEN [exc |-> TRUE, results |-> acc]
                 ELSE BatchLoop(list, beh, i + 1, Append(acc, r.rec))

\* get_openfda_warnings_batch as one call
get_openfda_warnings_batch(list, beh) ==
    LET b == BatchLoop(list, beh, 1, <<>>) IN
    [exc |-> b.exc,
     report |-> [status |-> batch_status(b.results), count |-> Len(b.results),
                 results |-> b.results]]

\* str.title() on a name of lower-case letters
Upper(c) == CASE c = "a" -> "A" [] c = "b" -> "B" [] OTHER -> c

Title(name) ==
    [j \in 1..Len(name) |->
        IF j = 1 \/ name[j - 1] \in Whitespace THEN Upper(name[j]) ELSE name[j]]

\* the note of step 4 for the i-th entry, by its parts
SafetyNote(i, entry) ==
    [i |-> i,
     drug |-> Title(entry.drug_name),
     brand |-> entry.brand,
     generic |-> entry.generic,
     warning |-> entry.warnings]

\* the names extract_drugs_with_groq returns: stripped, lower-case, not empty
PlanNames == { <<"a">>, <<"b">> }

InitPlan ==
    /\ drugs \in SeqsUpTo(PlanNames, MaxList) \ {<<>>}
    /\ fda_batch = NoValue
    /\ safety_notes = <<>>
    /\ ppc = "batch"

\* step 3: fda_batch = get_openfda_warnings_batch(drugs)
PlanBatch ==
    /\ ppc = "batch"
    /\ \E beh \in [1..Len(drugs) -> PlanBehaviours] :
          LET b == get_openfda_warnings_batch(drugs, beh) IN
          IF b.exc
          THEN ppc' = "failed" /\ UNCHANGED fda_batch
          ELSE /\ fda_batch' = b.report
               /\ ppc' = IF b.report.results = <<>> THEN "done" ELSE "notes"
    /\ UNCHANGED <<drugs, safety_notes>>
    /\ UNCHANGED <<fdaVars, pathVars, srvVars, kbVars, concVars, chunkVars,
                   moreVars>>

\* step 4: the notes of the FDA safety summary
PlanNotes ==
    /\ ppc = "notes"
    /\ safety_notes' = [i \in 1..Len(fda_batch.results) |->
                           SafetyNote(i, fda_batch.results[i])]
    /\ ppc' = "done"
    /\ UNCHANGED <<drugs, fda_batch>>
    /\ UNCHANGED <<fdaVars, pathVars, srvVars, kbVars, concVars, chunkVars,
                   moreVars>>

-----------------------------------------------------------------------------
(* agents/kb_agent.py, step 3, on one text at a time *)

\* A text of `len` characters: words of x, a blank at every gap-th place
\* (none when gap = 0), and a blank in front when `lead`.
TruncText(len, gap, lead) ==
    [j \in 1..len |->
        IF (lead /\ j = 1) \/ (gap > 0 /\ j % gap = 0) THEN " " ELSE "x"]

\* Lengths around the threshold, and short texts.
TruncLens == {0, 5, TruncLimit - 1, TruncLimit, TruncLimit + 1, TruncLimit + 7,
              TruncLimit + 100}

\* Blanks everywhere, at the cut, right after the cut, only beyond it, nowhere.
TruncGaps == {0, 3, 7, 19, 50, TruncCut + 1, TruncLimit + 1}

InitTrunc ==
    /\ tpassage \in { TruncText(len, gap, lead) :
                        len \in TruncLens, gap \in TruncGaps, lead \in BOOLEAN }
    /\ cleaned = NoValue

\* one iteration of `for passage in hits:`
TruncStep ==
    /\ cleaned = NoValue
    /\ cleaned' = Some(CleanPassage(tpassage))
    /\ UNCHANGED tpassage
    /\ UNCHANGED <<fdaVars, pathVars, srvVars, kbVars, concVars, chunkVars,
                   planVars, invVars>>

-----------------------------------------------------------------------------
(* POST /invoke_tool of the two tool services *)

\* JSON values of the `arguments` mapping
TextV(t) == [text |-> t]
NumV     == [num |-> 5]                    \* a value that is no string, truthy
ListV(l) == [list |-> l]
IsTextV(v) == "text" \in DOMAIN v
IsListV(v) == "list" \in DOMAIN v
IsNullV(v) == "null" \in DOMAIN v

\* how a try body ends
Returned(x)  == [returned |-> x]
Raised(e)    == [raised |-> e]
IsRaised(o)  == "raised" \in DOMAIN o

\* HTTPException(status_code, detail) and any other exception
HTTPException(status_code, detail) == [status_code |-> status_code, detail |-> detail]
OtherError(kind) == [error |-> kind]
UnknownTool(tool_name) == [text |-> "Unknown tool: ", name |-> tool_name]

\* the tools each service defines
ToolsOf(server) ==
    IF server = "fda" THEN {"check_drug_safety", "check_multiple_drugs"}
    ELSE {"search_medical_guidelines"}

\* the body of the try block of invoke_tool in mcp_server_fda.py
TryInvokeFda(tool_name, arguments, srcs) ==
    IF tool_name = "check_drug_safety"
    THEN LET drug_name == Get(arguments, "drug_name", TextV(<<>>)) IN
         IF IsTextV(drug_name)
         THEN Returned(check_drug_safety(drug_name.text, srcs[1]))
         ELSE IF IsNullV(drug_name)
         THEN Returned(check_drug_safety(<<>>, srcs[1]))     \* `not None`
         ELSE Raised(OtherError("AttributeError"))           \* 5 .strip()
    ELSE IF tool_name = "check_multiple_drugs"
    THEN LET list == Get(arguments, "drug_list", ListV(<<>>)) IN
         IF IsListV(list)
         THEN Returned(check_multiple_drugs(list.list, srcs))
         ELSE IF IsNullV(list)
         THEN Returned(check_multiple_drugs(<<>>, srcs))
         ELSE Raised(OtherError("TypeError"))                \* iterating 5
    ELSE Raised(HTTPException(400, UnknownTool(tool_name)))

\* the body of the try block of invoke_tool in mcp_server_kb.py
TryInvokeKb(tool_name, arguments, rag) ==
    IF tool_name = "search_medical_guidelines"
    THEN Returned(search_medical_guidelines(rag))
    ELSE Raised(HTTPException(400, UnknownTool(tool_name)))

\* `except Exception as e: raise HTTPException(status_code=500, detail=str(e))`
\* wrapping the try block: HTTPException is an Exception, so the 400 raised
\* inside the block is caught as well.
ExceptException(outcome) ==
    IF IsRaised(outcome)
    THEN Raised(HTTPException(500, [str |-> outcome.raised]))
    ELSE outcome

\* the response the framework makes of the endpoint's outcome
Respond(outcome) ==
    IF IsRaised(outcome)
    THEN Http(outcome.raised.status_code,
              JsonObj([detail |-> outcome.raised.detail]))
    ELSE Http(200, JsonObj([success |-> TRUE, result |-> JDict(outcome.returned)]))

invoke_tool(server, tool_name, arguments, srcs, rag) ==
    Respond(ExceptException(
        IF server = "fda" THEN TryInvokeFda(tool_name, arguments, srcs)
        ELSE TryInvokeKb(tool_name, arguments, rag)))

InvServers == {"fda", "kb"}
InvTools   == {"check_drug_safety", "check_multiple_drugs",
               "search_medical_guidelines", "list_tools", "nothing"}
InvArguments ==
    {EmptyMap}
      \cup { [drug_name |-> v] :
               v \in { TextV(n) : n \in NameInputs } \cup {NumV, JNull} }
      \cup { [drug_list |-> v] :
               v \in { ListV(l) : l \in SeqsUpTo({<<" ">>, <<"a">>}, 1) }
                       \cup {NumV, JNull} }
      \cup { [query |-> TextV(<<"a">>)], [query |-> TextV(<<"a">>), top_k |-> NumV] }

\* what rag_lookup_kb does inside the guideline service
InvRagOutcomes ==
    { [exc |-> TRUE, hits |-> <<>>], [exc |-> FALSE, hits |-> <<>>],
      [exc |-> FALSE, hits |-> << [passage |-> <<"p">>, score |-> 0] >>] }

InitInvoke ==
    /\ inv_server \in InvServers
    /\ inv_tool \in InvTools
    /\ inv_args \in InvArguments
    /\ inv_resp = NoValue

\* one POST /invoke_tool
InvokeTool ==
    /\ inv_resp = NoValue
    /\ \E srcs \in [1..1 -> BatchBehaviours], rag \in InvRagOutcomes :
          inv_resp' = Some(invoke_tool(inv_server, inv_tool, inv_args, srcs, rag))
    /\ UNCHANGED <<inv_server, inv_tool, inv_args>>
    /\ UNCHANGED <<fdaVars, pathVars, srvVars, kbVars, concVars, chunkVars,
                   planVars, truncVars>>

vars == <<fdaVars, pathVars, srvVars, kbVars, extVars>>

BatchIdle == medicine_list = <<>> /\ bi = 1 /\ results = <<>> /\ trace = <<>>
             /\ report = NoValue /\ bpc = "off"
PathsIdle == pname = <<>> /\ psource = NoValue /\ recUp = NoValue /\ recDown = NoValue
SrvIdle   == drug_list = <<>> /\ srvReport = NoValue
KbIdle    == /\ snapshot = "absent" /\ pdf = FALSE /\ passages = <<>> /\ qdist = <<>>
             /\ kb_index_data = NoIndex /\ nextId = 1 /\ lastEnsure = NoValue
             /\ firstIndex = NoIndex /\ laterCall = FALSE /\ kbOut = NoValue

ConcIdle  == tpc = <<>> /\ tdata = <<>> /\ tret = <<>> /\ assigns = 0
ChunkIdle == ctext = <<>> /\ chunk_size = 1 /\ overlap = 0 /\ ci = 0
             /\ chunks = <<>> /\ cpc = "off"
PlanIdle  == drugs = <<>> /\ fda_batch = NoValue /\ safety_notes = <<>>
             /\ ppc = "off"
TruncIdle == tpassage = <<>> /\ cleaned = NoValue
InvIdle   == inv_server = "off" /\ inv_tool = "" /\ inv_args = NoValue
             /\ inv_resp = NoValue
MoreIdle  == TruncIdle /\ InvIdle
ExtIdle   == ConcIdle /\ ChunkIdle /\ PlanIdle /\ MoreIdle

InitFda == InitBatch /\ PathsIdle /\ SrvIdle /\ KbIdle /\ ExtIdle
NextFda == BatchSkip \/ BatchLookup \/ BatchReturn
SpecFda == InitFda /\ [][NextFda]_vars

InitPathsOnly == InitPaths /\ BatchIdle /\ SrvIdle /\ KbIdle /\ ExtIdle
NextPaths == CallServiceUp \/ CallServiceDown
SpecPaths == InitPathsOnly /\ [][NextPaths]_vars

InitSrvOnly == InitSrv /\ BatchIdle /\ PathsIdle /\ KbIdle /\ ExtIdle
NextSrv == SrvCheckMultiple
SpecSrv == InitSrvOnly /\ [][NextSrv]_vars

InitKbOnly == InitKb /\ BatchIdle /\ PathsIdle /\ SrvIdle /\ ExtIdle
NextKb == EnsureKbIndex \/ RagLookupKb \/ KbAgent \/ EnvSnapshot \/ EnvDocument
SpecKb == InitKbOnly /\ [][NextKb]_vars

\* the cache and the retriever alone, the files changing around them
NextCache == EnsureKbIndex \/ RagLookupKb \/ EnvSnapshot \/ EnvDocument
SpecCache == InitKbOnly /\ [][NextCache]_vars

InitConcOnly == InitConc /\ BatchIdle /\ PathsIdle /\ SrvIdle /\ ChunkIdle
                /\ PlanIdle /\ MoreIdle
NextConc == TestStep \/ LoadStep \/ DocumentStep \/ BuildStep \/ AssignStep
            \/ ReturnStep \/ EnvSnapshot \/ EnvDocument
SpecConc == InitConcOnly /\ [][NextConc]_vars

InitChunkOnly == InitChunk /\ BatchIdle /\ PathsIdle /\ SrvIdle /\ KbIdle
                 /\ ConcIdle /\ PlanIdle /\ MoreIdle
NextChunk == ChunkLoop \/ ChunkReturn
SpecChunk == InitChunkOnly /\ [][NextChunk]_vars

InitPlanOnly == InitPlan /\ BatchIdle /\ PathsIdle /\ SrvIdle /\ KbIdle
                /\ ConcIdle /\ ChunkIdle /\ MoreIdle
NextPlan == PlanBatch \/ PlanNotes
SpecPlan == InitPlanOnly /\ [][NextPlan]_vars

OthersIdle == BatchIdle /\ PathsIdle /\ SrvIdle /\ KbIdle /\ ConcIdle
              /\ ChunkIdle /\ PlanIdle

InitTruncOnly == InitTrunc /\ OthersIdle /\ InvIdle
NextTrunc == TruncStep
SpecTrunc == InitTruncOnly /\ [][NextTrunc]_vars

InitInvokeOnly == InitInvoke /\ OthersIdle /\ TruncIdle
NextInvoke == InvokeTool
SpecInvoke == InitInvokeOnly /\ [][NextInvoke]_vars


-----------------------------------------------------------------------------
(* Properties of the drug-safety dispatcher and the batch verifier *)

\* C1: in get_openfda_warnings the public lookup is invoked if and only if
\* the primary tool call failed; when the primary answers 200 with a mapping
\* result the record carries the primary's brand, generic and warnings and no
\* public lookup request is made.
C1_SecondaryIffPrimaryFailed ==
    \A j \in 1..Len(trace) :
       LET t == trace[j]
           r == results[j]
       IN /\ (t.calls # <<>>) <=> t.primaryFailed
          /\ ~t.primaryFailed =>
                \A k \in {"brand", "generic", "warnings"} \cap DOMAIN t.mapping :
                   r[k] = t.mapping[k]

C1_Witness ==
    \E j, k \in 1..Len(trace) :
       /\ trace[j].primaryFailed /\ Len(trace[j].calls) = 2
       /\ ~trace[k].primaryFailed /\ "brand" \in DOMAIN trace[k].mapping
       /\ results[k].brand = "Bayer"

\* C4: whichever path is taken, the tool service answering or the direct
\* public lookup with the service down, get_openfda_warnings returns the same
\* record for the same drug name and the same behaviour of the source.
C4_PathsIndistinguishable ==
    (recUp # NoValue /\ recDown # NoValue) => recUp = recDown

\* A query of the source resolves the drug: status 200 and a usable entry.
Resolves(resp) ==
    /\ ~RespFailed(resp)
    /\ "results" \in DOMAIN resp.body.obj
    /\ resp.body.obj.results # <<>>
    /\ \A f \in DOMAIN resp.body.obj.results[1] :
          resp.body.obj.results[1][f] # <<>>

Unresolved(src) == ~Resolves(src["brand_name"]) /\ ~Resolves(src["generic_name"])

\* C5: a drug name that neither the brand nor the generic lookup resolves
\* yields the found=false record with the sentinel brand, generic and
\* warnings, whether the tool service is reachable or not.
C5_UnresolvedIsNotFound ==
    Unresolved(psource) =>
       /\ recUp # NoValue => recUp = NotFoundRecord(pname)
       /\ recDown # NoValue => recDown = NotFoundRecord(pname)

NonBlankBefore(n) ==
    { k \in 1..n : Strip(medicine_list[k]) # <<>> }

AllLookupsFailed(t) ==
    t.primaryFailed /\ \A c \in 1..Len(t.calls) : t.calls[c].failed

\* C6: get_openfda_warnings_batch never aborts on a per-item failure: no
\* exception escapes, every non-blank name yields exactly one record, an item
\* whose lookups all fail yields the found=false sentinel record and the
\* remaining items are still processed.
C6_BatchNeverAborts ==
    /\ bpc # "raised"
    /\ Len(results) = Cardinality(NonBlankBefore(bi - 1))
    /\ \A j \in 1..Len(trace) :
          AllLookupsFailed(trace[j]) =>
             results[j] = NotFoundRecord(Strip(medicine_list[trace[j].item]))
    /\ bpc = "loop" => ENABLED (BatchSkip \/ BatchLookup \/ BatchReturn)
    /\ bpc = "done" =>
          Len(report.results) = Cardinality(NonBlankBefore(Len(medicine_list)))

C6_Witness ==
    /\ bpc = "done"
    /\ \E j, k \in 1..Len(trace) :
          /\ j < k
          /\ AllLookupsFailed(trace[j]) /\ Len(trace[j].calls) = 2
          /\ results[k].found /\ trace[k].primaryFailed

RECURSIVE Survivors(_, _)
Survivors(list, n) ==
    IF n = 0 THEN <<>>
    ELSE IF Strip(list[n]) = <<>> THEN Survivors(list, n - 1)
    ELSE Append(Survivors(list, n - 1), Strip(list[n]))

\* C7: the results of get_openfda_warnings_batch are exactly one record per
\* input entry that is non-empty after trimming, in input order, record i
\* carrying the trimmed i-th surviving name, and count is the number of
\* records.
C7_OrderAndNames ==
    /\ [j \in 1..Len(results) |-> results[j].drug_name]
          = Survivors(medicine_list, bi - 1)
    /\ report # NoValue =>
          /\ [j \in 1..Len(report.results) |-> report.results[j].drug_name]
                = Survivors(medicine_list, Len(medicine_list))
          /\ report.count = Len(report.results)

C7_Witness ==
    /\ report # NoValue
    /\ medicine_list = << <<" ", "b", "\t">>, <<" ">>, <<"a">> >>
    /\ report.count = 2
    /\ report.results[1].drug_name = <<"b">>
    /\ report.results[2].drug_name = <<"a">>

\* C8: the report of get_openfda_warnings_batch has status 'no_data' if and
\* only if its results are empty and 'success' otherwise, also when every
\* record has found=false.
C8_StatusIffEmpty ==
    report # NoValue =>
       /\ report.status = "no_data" <=> report.results = <<>>
       /\ report.results # <<>> => report.status = "success"

C8_Witness ==
    /\ report # NoValue
    /\ Len(report.results) = 2
    /\ \A j \in 1..Len(report.results) : ~report.results[j].found
    /\ report.status = "success"

C8_WitnessEmpty ==
    report # NoValue /\ report.results = <<>> /\ report.status = "no_data"

\* C9: check_multiple_drugs returns for every drug_list a report whose status
\* is 'no_data' when results is empty and 'success' otherwise, with count
\* the length of results; no other status value is produced.
C9_ServiceBatchStatus ==
    srvReport # NoValue =>
       /\ srvReport.status \in {"success", "no_data"}
       /\ srvReport.status = "no_data" <=> srvReport.results = <<>>
       /\ srvReport.count = Len(srvReport.results)


-----------------------------------------------------------------------------
(* Properties of the guideline dispatcher and the index cache *)

\* the most recent call is a finished kb_agent call
IsKbAgentCall == kbOut # NoValue /\ kbOut.op = "kb_agent"

\* C2: in kb_agent, whenever the primary tool call returns 200 with a mapping
\* containing guideline_snippets, that list is used as the result and the
\* local retriever rag_lookup_kb is not called, whatever the list holds,
\* the empty list included.
C2_PrimarySnippetsCanonical ==
    (IsKbAgentCall /\ IsSome(kbOut.primary)) =>
       /\ ~kbOut.localCalled
       /\ kbOut.hits = kbOut.primary

\* the passage texts of a hit list that are not empty, in order
NonEmptyPassages(hs) ==
    SelectSeq([j \in 1..Len(hs) |-> hs[j].passage], LAMBDA t : t # <<>>)

\* C3: in kb_agent, when the primary tool call fails, the passages used are
\* exactly the non-empty passage texts the local retriever returned, in its
\* rank order, as a list of texts; no exception of the primary call reaches
\* the caller.
C3_FallbackUsesLocalPassages ==
    IsKbAgentCall =>
       /\ kbOut.excFrom # "primary"
       /\ ~IsSome(kbOut.primary) =>
             /\ kbOut.localCalled
             /\ IsSome(kbOut.local_hits) =>
                   IF kbOut.local_hits.some = <<>>
                   THEN ~IsSome(kbOut.hits) /\ kbOut.ret = "no_passages"
                   ELSE /\ IsSome(kbOut.hits)
                        /\ kbOut.hits.some = NonEmptyPassages(kbOut.local_hits.some)

C3_Witness ==
    /\ IsKbAgentCall
    /\ ~IsSome(kbOut.primary)
    /\ IsSome(kbOut.local_hits)
    /\ Len(kbOut.local_hits.some) = 2
    /\ kbOut.local_hits.some[1].passage = PassageText(1)
    /\ kbOut.hits = Some(<<PassageText(1), PassageText(0)>>)
    /\ kbOut.ret = "summary"

\* C10: once a call of ensure_kb_index has returned an index, every later
\* call returns that same index and performs no snapshot load, no document
\* existence check and no build, and the cached index is never replaced or
\* reset, whatever happens to the files meanwhile.
C10_CachedIndexStable ==
    firstIndex # NoIndex =>
       /\ kb_index_data = firstIndex
       /\ laterCall =>
             /\ ~lastEnsure.exc
             /\ lastEnsure.ret = firstIndex
             /\ lastEnsure.io = {}

C10_Witness ==
    /\ firstIndex # NoIndex
    /\ laterCall
    /\ snapshot = "corrupt" /\ ~pdf
    /\ lastEnsure.ret = firstIndex
    /\ kb_index_data = firstIndex


-----------------------------------------------------------------------------
(* Properties of the index cache under concurrent first access *)

\* C11: when two or more threads call ensure_kb_index while the cache is
\* empty, the index is loaded or built once: at most one index object is
\* created, the global is assigned at most once, and all callers that get an
\* index get the same one.
C11_SingleFlight ==
    /\ nextId - 1 <= 1
    /\ assigns <= 1
    /\ \A s, t \in Threads :
          (tret[s] > NoIndex /\ tret[t] > NoIndex) => tret[s] = tret[t]

-----------------------------------------------------------------------------
(* Properties of the index cache when nothing can be loaded or built *)

\* A step in which ensure_kb_index ran: called directly, by rag_lookup_kb, or
\* by the fallback of kb_agent.
EnsureCalled ==
    \/ (kbOut' = kbOut /\ EnsureKbIndex)
    \/ (kbOut' # NoValue /\ kbOut'.op = "rag_lookup_kb" /\ RagLookupKb)
    \/ (kbOut' # NoValue /\ kbOut'.op = "kb_agent" /\ kbOut'.localCalled /\ KbAgent)

\* C12: a call of ensure_kb_index made while the cache is empty and neither
\* the snapshot nor the document exists returns None without raising and
\* without attempting a build (or a load), and leaves the global unset.
C12_BothAbsentReturnsNone ==
    [][ (snapshot = "absent" /\ ~pdf /\ kb_index_data = NoIndex /\ EnsureCalled)
        => /\ lastEnsure'.exc = FALSE
           /\ lastEnsure'.ret = NoIndex
           /\ lastEnsure'.io = {"snapshot_exists", "document_exists"}
           /\ kb_index_data' = NoIndex
           /\ snapshot' = "absent" ]_vars

\* such a call was made and nothing has changed since
C12_Witness ==
    /\ lastEnsure # NoValue
    /\ lastEnsure.io = {"snapshot_exists", "document_exists"}
    /\ lastEnsure.ret = NoIndex /\ ~lastEnsure.exc
    /\ kb_index_data = NoIndex /\ snapshot = "absent" /\ ~pdf

IsRagCall == kbOut # NoValue /\ kbOut.op = "rag_lookup_kb"

\* C13: whenever rag_lookup_kb could obtain no index (both files absent, the
\* build failing, the snapshot load failing) it returns the empty sequence
\* and does not raise.
C13_UnavailableIsEmpty ==
    (IsRagCall /\ kbOut.index = NoIndex) => (~kbOut.exc /\ kbOut.hits = <<>>)

-----------------------------------------------------------------------------
(* Properties of the retriever *)

\* rag_lookup_kb searched an index
RagSearched == IsRagCall /\ kbOut.index # NoIndex

\* the position (1-based) in the index of a passage text
PassageId(p) == CHOOSE i \in 1..Len(passages) : passages[i] = p

\* C14: for an index of n passages and k >= 1, rag_lookup_kb returns exactly
\* min(k, n) hits, each a distinct passage of the index, in non-decreasing
\* distance, with no passage left out that is strictly nearer than a returned
\* one; the placeholder ids that fill the answer when k > n yield no hit.
C14_NearestHits ==
    RagSearched =>
        LET n == Len(passages)
            k == kbOut.top_k
            h == kbOut.hits
            ids == { PassageId(h[j].passage) : j \in 1..Len(h) }
        IN /\ ~kbOut.exc
           /\ Len(h) = IF k < n THEN k ELSE n
           /\ \A j \in 1..Len(h) : \E i \in 1..n : passages[i] = h[j].passage
           /\ \A a, b \in 1..Len(h) : a < b =>
                 /\ h[a].passage # h[b].passage
                 /\ qdist[PassageId(h[a].passage)] <= qdist[PassageId(h[b].passage)]
           /\ \A x \in (1..n) \ ids : \A a \in 1..Len(h) :
                 qdist[PassageId(h[a].passage)] <= qdist[x]

\* k > n: the answer of the index ends in a placeholder id
C14_Witness ==
    /\ RagSearched
    /\ kbOut.top_k > Len(passages)
    /\ kbOut.found.I[kbOut.top_k] < 0
    /\ Len(kbOut.hits) = Len(passages)

\* k < n: a passage is left out, and it is farther than the one returned
C14_WitnessLeftOut ==
    /\ RagSearched
    /\ kbOut.top_k < Len(passages)
    /\ \E x \in 1..Len(passages) : qdist[x] > qdist[PassageId(kbOut.hits[1].passage)]

\* the rank positions of the answer of the index that hold a passage id
ValidRanks(found) ==
    { j \in 1..Len(found.I) : found.I[j] >= 0 /\ found.I[j] < Len(passages) }

\* the j-th of them
NthRank(found, j) ==
    CHOOSE r \in ValidRanks(found) :
        Cardinality({ q \in ValidRanks(found) : q < r }) = j - 1

\* C15: in every result of rag_lookup_kb the j-th hit is the passage of the
\* j-th passage id of the neighbour list, and its score is the distance at
\* that id's own rank position; so it is with equal distances and with
\* placeholder ids in the list.
C15_ScoreAtSameRank ==
    RagSearched =>
        LET f == kbOut.found
            h == kbOut.hits
        IN /\ Len(h) = Cardinality(ValidRanks(f))
           /\ \A j \in 1..Len(h) :
                 /\ h[j].passage = passages[f.I[NthRank(f, j)] + 1]
                 /\ h[j].score = f.D[NthRank(f, j)]

\* the later passage of the document is the nearer one
C15_Witness ==
    /\ RagSearched
    /\ Len(kbOut.hits) = 2
    /\ kbOut.found.I[1] > kbOut.found.I[2]
    /\ kbOut.found.D[1] < kbOut.found.D[2]

\* two neighbours are equally far and come in the order opposite to the index
C15_WitnessTie ==
    /\ RagSearched
    /\ Len(kbOut.hits) = 2
    /\ kbOut.found.I[1] > kbOut.found.I[2]
    /\ kbOut.found.D[1] = kbOut.found.D[2]

\* the neighbour list ends in a placeholder
C15_WitnessPlaceholder ==
    /\ RagSearched
    /\ Len(kbOut.hits) = 1
    /\ kbOut.found.I = <<0, -1>>
    /\ kbOut.hits[1].score # InfDist

-----------------------------------------------------------------------------
(* Properties of chunk_text *)

\* the parameters the chunker is specified for
ValidWindow == 0 <= overlap /\ overlap < chunk_size

\* C16: chunk_text called with overlap >= chunk_size on a non-empty text fails
\* fast: it ends with a validation error before the loop runs, so no chunk is
\* ever produced with such parameters.
C16_FailsFast ==
    (overlap >= chunk_size /\ tokens # <<>>) => chunks = <<>>

\* ceil(a / b) for a >= 0 and b > 0
CeilDiv(a, b) == (a + b - 1) \div b

\* C17: for n > 0 tokens and 0 <= overlap < chunk_size the number of chunks
\* returned is ceil(max(n - overlap, 0) / (chunk_size - overlap)).
C17_ChunkCount ==
    (cpc = "done" /\ ValidWindow /\ Len(tokens) > 0) =>
        LET n == Len(tokens)
            rest == IF n - overlap > 0 THEN n - overlap ELSE 0
        IN Len(chunks) = CeilDiv(rest, chunk_size - overlap)

\* C18: a text of at least one and fewer than chunk_size tokens gives, for
\* every 0 <= overlap < chunk_size, exactly one chunk, and it holds all tokens.
C18_ShortTextOneChunk ==
    (cpc = "done" /\ ValidWindow /\ Len(tokens) >= 1 /\ Len(tokens) < chunk_size)
        => (Len(chunks) = 1 /\ Split(chunks[1]) = tokens)

\* a chunk without its first `over` tokens, or without all of them when it
\* has fewer
DropOverlap(chunk, over) ==
    IF Len(chunk) <= over THEN <<>> ELSE SubSeq(chunk, over + 1, Len(chunk))

\* the first chunk followed by every later chunk with its overlap removed
RECURSIVE Reconstruct(_, _)
Reconstruct(cs, over) ==
    IF cs = <<>> THEN <<>>
    ELSE IF Len(cs) = 1 THEN Split(cs[1])
    ELSE Reconstruct(SubSeq(cs, 1, Len(cs) - 1), over)
           \o DropOverlap(Split(cs[Len(cs)]), over)

\* C19: for 0 <= overlap < chunk_size, chunk j (from 0) holds the tokens from
\* position j * (chunk_size - overlap) on, chunk_size of them or as many as
\* are left; and the first chunk followed by the later chunks without their
\* first `overlap` tokens is the token sequence of the text.
C19_ChunksCoverTokens ==
    ValidWindow =>
        LET n == Len(tokens)
            step == chunk_size - overlap
        IN /\ \A j \in 1..Len(chunks) :
                 LET from == (j - 1) * step
                     upto == IF from + chunk_size < n THEN from + chunk_size ELSE n
                 IN /\ from < n
                    /\ Split(chunks[j]) = SubSeq(tokens, from + 1, upto)
           /\ cpc = "done" => Reconstruct(chunks, overlap) = tokens

\* a finished run of three or more chunks whose last chunk is shorter than
\* the overlap
C19_Witness ==
    /\ cpc = "done" /\ ValidWindow /\ overlap >= 2
    /\ Len(chunks) >= 3
    /\ Len(Split(chunks[Len(chunks)])) < overlap

-----------------------------------------------------------------------------
(* Properties of the report handed to display *)

\* C20: no warning text longer than the threshold appears in the batch report
\* or in a note of the FDA safety summary: a longer text received from the
\* tool service or from the public source has been cut before.
C20_WarningsBounded ==
    /\ fda_batch # NoValue =>
          \A j \in 1..Len(fda_batch.results) :
              Len(fda_batch.results[j].warnings) <= TruncLimit
    /\ \A j \in 1..Len(safety_notes) : Len(safety_notes[j].warning) <= TruncLimit

-----------------------------------------------------------------------------
(* Properties of the truncation step *)

\* how many whitespace characters a text begins with
Lead(t) == Len(t) - Len(LStrip(t))

\* place p of text t is not inside a word: t ends there, or a whitespace
\* character stands at p or right after it
WordBoundary(t, p) ==
    IF p = 0 \/ p >= Len(t) THEN TRUE
    ELSE t[p] \in Whitespace \/ t[p + 1] \in Whitespace

Ellipsis == <<".", ".", ".">>

\* C21: the truncation step turns every text of more than 1000 characters
\* into one of at most 953 characters that ends in "..." and whose part
\* before the ellipsis is a beginning of the text that ends at a word
\* boundary, also when the first 950 characters hold no blank; a text of at
\* most 1000 characters is only trimmed.
C21_TruncationContract ==
    IsSome(cleaned) =>
        LET t == tpassage
            out == cleaned.some
        IN IF Len(t) > TruncLimit
           THEN /\ Len(out) <= TruncCut + 3
                /\ Len(out) >= 3
                /\ SubSeq(out, Len(out) - 2, Len(out)) = Ellipsis
                /\ LET body == SubSeq(out, 1, Len(out) - 3)
                       p == Len(body) + Lead(t)
                   IN /\ body = LStrip(SubSeq(t, 1, p))
                      /\ WordBoundary(t, p)
           ELSE out = Strip(t)

-----------------------------------------------------------------------------
(* Properties of the calls the batch verifier makes *)

\* C22: in every run of get_openfda_warnings_batch the dispatcher is never
\* called with an empty or whitespace-only name, and every name it is called
\* with is the trimmed form of the input entry the loop was at.
C22_DispatchedNamesTrimmed ==
    \A j \in 1..Len(trace) :
        /\ trace[j].arg # <<>>
        /\ \E c \in 1..Len(trace[j].arg) : trace[j].arg[c] \notin Whitespace
        /\ trace[j].item \in 1..Len(medicine_list)
        /\ trace[j].arg = Strip(medicine_list[trace[j].item])

\* a finished run over a blank entry and a padded one
C22_Witness ==
    /\ bpc = "done"
    /\ \E i \in 1..Len(medicine_list) : medicine_list[i] = <<" ">>
    /\ \E j \in 1..Len(trace) :
          /\ medicine_list[trace[j].item] = <<" ", "b", "\t">>
          /\ trace[j].arg = <<"b">>

\* C23: the public lookup queries by brand name first, and by generic name if
\* and only if the brand query yielded no match, whatever the reason (empty
\* result list, non-200 status, timeout or connection error); the first
\* match ends the lookup and at most two requests are made.
C23_BrandThenGeneric ==
    \A j \in 1..Len(trace) :
        LET calls == trace[j].calls IN
        calls # <<>> =>
            /\ calls[1].key = "brand_name"
            /\ Len(calls) <= 2
            /\ Len(calls) = 2 => calls[2].key = "generic_name"
            /\ (Len(calls) = 2) <=> ~calls[1].matched

\* C24: in get_openfda_warnings_batch the names are looked up one at a time in
\* input order: the calls on record belong to entries the loop has passed,
\* in increasing order of entry, and for each name exactly one call of the
\* tool service was made, before every public lookup call for that name.
C24_OneAtATimeInOrder ==
    /\ \A j \in 1..Len(trace) :
          /\ trace[j].item < bi
          /\ j < Len(trace) => trace[j].item < trace[j + 1].item
          /\ trace[j].net # <<>>
          /\ trace[j].net[1] = "primary"
          /\ \A c \in 2..Len(trace[j].net) : trace[j].net[c] \in {"brand_name", "generic_name"}
    /\ Len(trace) = Len(results)

\* two names in a row, each with the tool service failing and two public
\* lookup calls
C24_Witness ==
    /\ Len(trace) >= 2
    /\ Len(trace[1].net) = 3
    /\ Len(trace[2].net) = 3

-----------------------------------------------------------------------------
(* Properties of a failed build and of the unavailable outcome *)

\* C25: a call of ensure_kb_index made with the cache empty, no snapshot and
\* the document present attempts the build; when the build fails (the
\* embedding raises) the error reaches the caller, no snapshot is written and
\* the global stays unset, so the state is the one before the call and the
\* next call attempts the build again; only a build that succeeded is cached
\* and persisted.
C25_FailedBuildLeavesNothing ==
    [][ (kb_index_data = NoIndex /\ snapshot = "absent" /\ pdf /\ EnsureCalled)
        => /\ "build" \in lastEnsure'.io
           /\ IF lastEnsure'.exc
              THEN /\ lastEnsure'.ret = NoIndex
                   /\ kb_index_data' = NoIndex
                   /\ snapshot' = "absent"
              ELSE /\ lastEnsure'.ret # NoIndex
                   /\ kb_index_data' = lastEnsure'.ret
                   /\ snapshot' = "ok" ]_vars

\* a build has just failed
C25_Witness ==
    /\ lastEnsure # NoValue
    /\ lastEnsure.exc
    /\ "build" \in lastEnsure.io
    /\ kb_index_data = NoIndex /\ snapshot = "absent" /\ pdf

-----------------------------------------------------------------------------
(* Properties of POST /invoke_tool *)

\* C26: on both services a request naming a tool the service does not define
\* is answered with status 400 and the detail 'Unknown tool: <name>', and
\* status 500 is answered only to a request that names a defined tool.
C26_UnknownToolIs400 ==
    inv_resp # NoValue =>
        /\ inv_tool \notin ToolsOf(inv_server)
             => /\ inv_resp.some.status = 400
                /\ inv_resp.some.body = JsonObj([detail |-> UnknownTool(inv_tool)])
        /\ inv_resp.some.status = 500 => inv_tool \in ToolsOf(inv_server)

-----------------------------------------------------------------------------
(* Properties of the passages kb_agent summarises *)

\* the text kb_agent makes of a passage of the index
IndexSnippets == { CleanPassage(passages[i]) : i \in 1..Len(passages) }

\* C27: every snippet kb_agent hands to the summariser is the (possibly
\* truncated) text of a passage of the index, on the tool-service path as on
\* the local path; the error text of a failed retriever inside the service is
\* never among them.
C27_SnippetsAreIndexPassages ==
    IsKbAgentCall =>
        \A j \in 1..Len(kbOut.raw_passages) :
            /\ kbOut.raw_passages[j] \in IndexSnippets
            /\ kbOut.raw_passages[j] # CleanPassage(ErrorSnippet)

\* C28: kb_agent(query, top_k) uses at most top_k passages, on the
\* tool-service path as on the local path.
C28_AtMostTopKPassages ==
    IsKbAgentCall => Len(kbOut.raw_passages) <= kbOut.top_k

-----------------------------------------------------------------------------
(* The unavailable outcome is not remembered *)

\* a file the index can be made from is there: a snapshot that loads, or the
\* document with no snapshot in its way
IndexSourcePresent == snapshot = "ok" \/ (snapshot = "absent" /\ pdf)

\* C29: None returned by ensure_kb_index is not cached.  When the call before
\* returned None and a loadable snapshot or the document is present by now,
\* the next call that reaches ensure_kb_index goes to storage again: it loads
\* the snapshot, or builds from the document, and unless that build raises it
\* returns the index and keeps it in the global; made through rag_lookup_kb,
\* the call returns hits.
C29_UnavailableNotCached ==
    [][ (ReturnedNone(lastEnsure) /\ IndexSourcePresent /\ EnsureCalled)
        => /\ lastEnsure'.io \cap {"load", "build"} # {}
           /\ snapshot = "ok" => ~lastEnsure'.exc
           /\ ~lastEnsure'.exc
                => /\ lastEnsure'.ret # NoIndex
                   /\ kb_index_data' = lastEnsure'.ret
                   /\ (kbOut' # kbOut /\ kbOut'.op = "rag_lookup_kb")
                        => (~kbOut'.exc /\ kbOut'.hits # <<>>) ]_vars

\* rag_lookup_kb has just returned hits from an index obtained right after a
\* call that returned None
C29_Witness ==
    /\ kbOut # NoValue /\ kbOut.op = "rag_lookup_kb"
    /\ kbOut.after_none
    /\ kbOut.index # NoIndex
    /\ kbOut.hits # <<>>
    /\ lastEnsure.ret = kbOut.index
    /\ lastEnsure.io \cap {"load", "build"} # {}

====
